---- MODULE Spec2Model ----
(***************************************************************************)
(* Stock-options tracker: trade economics and ledger engine.               *)
(*                                                                         *)
(* The persisted state is the SQLite database of src/app.py: the tables    *)
(* trades, cost_basis, cash_flows, commissions, trade_status_history and   *)
(* tickers.  Every HTTP handler is one action over those tables.           *)
(*                                                                         *)
(* Conventions of the model                                                *)
(*   - money is counted in cents (credit_debit, strike_price, commission   *)
(*     rates, ledger amounts), so round_standard(x, 2) and                 *)
(*     round_standard(x, 5) act on whole numbers of cents;                 *)
(*   - ARORC is counted in tenths of a percent (round_standard(x, 1));     *)
(*   - dates are day numbers; days between two dates is their difference;  *)
(*   - a nullable column holds Null (<<>>) or Some(v) (<<v>>);             *)
(*   - trade_type is the pair (ticker prefix, base type): add_trade stores *)
(*     "<TICKER> ROCT PUT" for an option and "BTO"/"STC" for stock;        *)
(*   - a ledger description is the pair (kind, n): its leading words decide*)
(*     every LIKE 'ASSIGNED%' and LIKE 'SELL -1 DIAGONAL%' test;           *)
(*   - basis_per_share is kept as the fraction <<numerator, denominator>>. *)
(*   - a ticker's id is the ticker symbol itself.                          *)
(* Columns no handler modelled here reads back (current_price,             *)
(* total_premium, price_per_share, notes, timestamps) are left out.        *)
(***************************************************************************)
EXTENDS Integers, Sequences, FiniteSets, TLC

\* ------------------------------------------------------------------ bounds
MaxSteps == 4
MaxLedgerSteps == 5
MaxTrades == 2
MaxRates == 2

\* ----------------------------------------------------------- input domains
Accounts == {1, 2}
Tickers == {1, 2}
Dates == 1 .. 3
\* variant: the lookup finds a row for a name init_db never inserted
TradeTypeNames_AnyName == {"ROCT PUT", "ROCT CALL", "BTO", "STC", "SPREAD"}
TradeTypeNames == {"ROCT PUT", "ROCT CALL", "BTO", "STC"}
Statuses == {"open", "closed", "expired", "assigned", "roll"}

VARIABLES trades, cost_basis, cash_flows, commissions, history, tickers,
          nextTradeId, nextCbId, nextCfId, nextCommId, today, steps, last

vars == <<trades, cost_basis, cash_flows, commissions, history, tickers,
          nextTradeId, nextCbId, nextCfId, nextCommId, today, steps, last>>

tables == <<trades, cost_basis, cash_flows, commissions, history, tickers,
            nextTradeId, nextCbId, nextCfId, nextCommId>>

\* ------------------------------------------------------------- null values
Null == <<>>
Some(v) == <<v>>
IsNull(x) == x = <<>>
Val(x) == x[1]

\* ----------------------------------------------------------------- helpers
Abs(x) == IF x < 0 THEN -x ELSE x

\* Decimal.quantize(..., ROUND_HALF_UP) of the quotient n / d (d > 0):
\* nearest whole unit, ties away from zero.
RoundHalfUpDiv(n, d) ==
    LET a == Abs(n)
        q == a \div d
        up == IF 2 * (a % d) >= d THEN q + 1 ELSE q
    IN IF n >= 0 THEN up ELSE -up

\* round_standard(value, decimals): value is the quotient n / d counted in
\* units of the last kept decimal.
round_standard(n, d) == RoundHalfUpDiv(n, d)

RECURSIVE GCD(_, _)
GCD(a, b) == IF b = 0 THEN a ELSE GCD(b, a % b)

RECURSIVE SumShares(_)
SumShares(S) ==
    IF S = {} THEN 0
    ELSE LET x == CHOOSE y \in S : TRUE
         IN x.shares + SumShares(S \ {x})

RECURSIVE SumAmount(_)
SumAmount(S) ==
    IF S = {} THEN 0
    ELSE LET x == CHOOSE y \in S : TRUE
         IN x.total_amount + SumAmount(S \ {x})

\* variant: the entry inserted last, whatever its date
MaxByDateId_LastInserted(S) == CHOOSE e \in S : \A o \in S : o.id <= e.id

\* the element of the non-empty set S that is greatest in (date, id) order
MaxByDateId(S) ==
    CHOOSE e \in S : \A o \in S :
        \/ o.transaction_date < e.transaction_date
        \/ (o.transaction_date = e.transaction_date /\ o.id <= e.id)

\* ------------------------------------------------------------ Rate Resolver
\* variant: the account filter is missing
get_commission_rate_AnyAccount(comms, account_id, trade_date) ==
    LET cand == {c \in comms : c.effective_date <= trade_date}
    IN IF cand = {} THEN 0
       ELSE (CHOOSE c \in cand : \A o \in cand :
                \/ o.effective_date < c.effective_date
                \/ (o.effective_date = c.effective_date /\ o.id <= c.id)
            ).commission_rate

\* SELECT commission_rate FROM commissions WHERE account_id = ? AND
\* effective_date <= ? ORDER BY effective_date DESC LIMIT 1, else 0.0.
\* Rows with equal effective_date are read off the index
\* idx_commissions_account_date backwards: the greatest rowid comes first.
get_commission_rate(comms, account_id, trade_date) ==
    LET cand == {c \in comms : c.account_id = account_id
                               /\ c.effective_date <= trade_date}
    IN IF cand = {} THEN 0
       ELSE (CHOOSE c \in cand : \A o \in cand :
                \/ o.effective_date < c.effective_date
                \/ (o.effective_date = c.effective_date /\ o.id <= c.id)
            ).commission_rate

\* ------------------------------------------------------- Metrics Calculator
\* 'ROCT PUT' in trade_type or 'RULE ONE PUT' in trade_type or ...
IsPutStyle(tt) == tt.base = "ROCT PUT"

\* trade_type in ['BTO', 'STC']
IsStock(tt) == tt.prefix = 0 /\ tt.base \in {"BTO", "STC"}

\* the tickers whose symbol contains 'ROP': ticker 2 stands for ROP
RopNamedTickers == {2}

\* 'PUT' in trade_type or 'ROP' in trade_type, tested on the stored string,
\* which for an option starts with the ticker symbol
IsPut(tt) == tt.base = "ROCT PUT" \/ tt.prefix \in RopNamedTickers

NetCreditPerShare(credit_debit, commission) ==
    round_standard(credit_debit - commission, 1)

\* variant: the risk capital is computed whatever the trade type
RiskCapitalPerShare_AnyType(tt, strike_price, net_credit) ==
    Some(round_standard(strike_price - net_credit, 1))

RiskCapitalPerShare(tt, strike_price, net_credit) ==
    IF IsPutStyle(tt) THEN Some(round_standard(strike_price - net_credit, 1))
    ELSE Null

\* variant: the margin is taken on the credit before commission
MarginCapital_GrossCredit(tt, strike_price, net_credit, num_of_contracts) ==
    IF ~IsStock(tt) /\ strike_price > 0
    THEN Some(num_of_contracts * 100 * (strike_price - 250))
    ELSE Null

MarginCapital(tt, strike_price, net_credit, num_of_contracts) ==
    IF ~IsStock(tt) /\ strike_price > 0
    THEN Some(num_of_contracts * 100 * (strike_price - net_credit))
    ELSE Null

\* (365 / dte) * (net / (risk * (mp / 100))) * 100 rounded to one decimal,
\* in tenths of a percent; the common factor of mp and 100 is cancelled.
ArorcValue(net_credit, risk_unrounded, dte, margin_percent) ==
    LET g == GCD(margin_percent, 100)
    IN round_standard(365 * 1000 * net_credit * (100 \div g),
                      dte * risk_unrounded * (margin_percent \div g))

ArorcGuard(tt, strike_price, net_credit, dte, margin_percent) ==
    /\ IsPutStyle(tt)
    /\ strike_price - net_credit > 0
    /\ dte > 0
    /\ margin_percent > 0

Arorc(tt, strike_price, net_credit, dte, margin_percent) ==
    IF ArorcGuard(tt, strike_price, net_credit, dte, margin_percent)
    THEN Some(ArorcValue(net_credit, strike_price - net_credit, dte,
                         margin_percent))
    ELSE Null

\* -------------------------------------------------------- Cost-Basis Ledger
Scope(cb, ticker_id, account_id) ==
    {e \in cb : e.ticker_id = ticker_id /\ e.account_id = account_id}

\* SELECT running_basis, running_shares ... ORDER BY transaction_date DESC,
\* rowid DESC LIMIT 1; (0, 0) when the scope has no entry.
SeedTotals(cb, ticker_id, account_id) ==
    LET sc == Scope(cb, ticker_id, account_id)
    IN IF sc = {} THEN [basis |-> 0, shares |-> 0]
       ELSE LET l == MaxByDateId(sc)
            IN [basis |-> l.running_basis, shares |-> l.running_shares]

\* variant: a flat position stores a basis per share of zero
BasisPerShare_ZeroWhenFlat(running_basis, running_shares) ==
    IF running_shares # 0 THEN <<running_basis, running_shares>>
    ELSE <<0, 1>>

BasisPerShare(running_basis, running_shares) ==
    IF running_shares # 0 THEN <<running_basis, running_shares>>
    ELSE <<running_basis, 1>>

Entry(id, account_id, ticker_id, trade_id, date, desc, shares, amount, running_basis, running_shares, bps) ==
    [id |-> id, account_id |-> account_id, ticker_id |-> ticker_id,
     trade_id |-> trade_id, cash_flow_id |-> Null, transaction_date |-> date,
     description |-> desc, shares |-> shares, total_amount |-> amount,
     running_basis |-> running_basis, running_shares |-> running_shares,
     basis_per_share |-> bps]

\* BTO / STC entry
create_cost_basis_entry(cb, id, account_id, ticker_id, trade_id, trade_date, tt, num_of_contracts, total_amount) ==
    LET seed == SeedTotals(cb, ticker_id, account_id)
        amount == IF tt.base = "STC" THEN -Abs(total_amount) ELSE total_amount
        shares == IF tt.base = "STC" THEN -num_of_contracts
                  ELSE num_of_contracts
        nb == seed.basis + amount
        ns == seed.shares + shares
    IN cb \cup {Entry(id, account_id, ticker_id, trade_id, trade_date,
                      [kind |-> "STOCK", n |-> num_of_contracts],
                      shares, amount, nb, ns, BasisPerShare(nb, ns))}

\* variant: an option entry counts its contracts as shares
create_options_cost_basis_entry_ContractsAsShares(cb, id, account_id, ticker_id, trade_id, trade_date, num_of_contracts, premium) ==
    LET seed == SeedTotals(cb, ticker_id, account_id)
        amount == -(premium * num_of_contracts * 100)
        nb == seed.basis + amount
        ns == seed.shares + num_of_contracts
    IN cb \cup {Entry(id, account_id, ticker_id, trade_id, trade_date,
                      [kind |-> "SELL", n |-> num_of_contracts],
                      num_of_contracts, amount, nb, ns, BasisPerShare(nb, ns))}

\* option open entry; the first entry of a scope stores the amount itself
create_options_cost_basis_entry(cb, id, account_id, ticker_id, trade_id, trade_date, num_of_contracts, premium) ==
    LET sc == Scope(cb, ticker_id, account_id)
        seed == SeedTotals(cb, ticker_id, account_id)
        amount == -(premium * num_of_contracts * 100)
        nb == IF sc = {} THEN amount ELSE seed.basis + amount
        ns == IF sc = {} THEN 0 ELSE seed.shares + 0
        bps == IF sc = {} THEN <<amount, 1>> ELSE BasisPerShare(nb, ns)
    IN cb \cup {Entry(id, account_id, ticker_id, trade_id, trade_date,
                      [kind |-> "SELL", n |-> num_of_contracts],
                      0, amount, nb, ns, bps)}

\* roll entry: description "SELL -<n> DIAGONAL ..."
create_roll_diagonal_cost_basis_entry(cb, id, new_trade_id, account_id, ticker_id, trade_date, new_credit, new_num_contracts) ==
    LET seed == SeedTotals(cb, ticker_id, account_id)
        amount == -(new_credit * new_num_contracts * 100)
        nb == seed.basis + amount
        ns == seed.shares + 0
    IN cb \cup {Entry(id, account_id, ticker_id, new_trade_id, trade_date,
                      [kind |-> "DIAGONAL", n |-> new_num_contracts],
                      0, amount, nb, ns, BasisPerShare(nb, ns))}

\* description LIKE 'ASSIGNED%' for this trade, account and ticker
AssignedEntries(cb, trade_id, account_id, ticker_id) ==
    {e \in cb : e.trade_id = trade_id /\ e.account_id = account_id
                /\ e.ticker_id = ticker_id
                /\ e.description.kind = "ASSIGNED"}

\* assignment entry, dated at the expiration date; skipped when the trade
\* already has one under its current account and ticker
create_assigned_cost_basis_entry(cb, id, trade) ==
    IF AssignedEntries(cb, trade.id, trade.account_id, trade.ticker_id) # {}
    THEN cb
    ELSE LET seed == SeedTotals(cb, trade.ticker_id, trade.account_id)
             num_shares == trade.num_of_contracts * 100
             is_put == IsPut(trade.trade_type)
             shares == IF is_put THEN num_shares ELSE -num_shares
             amount == IF is_put THEN trade.strike_price * num_shares
                       ELSE -(trade.strike_price * num_shares)
             nb == seed.basis + amount
             ns == seed.shares + shares
         IN cb \cup {Entry(id, trade.account_id, trade.ticker_id, trade.id,
                           trade.expiration_date,
                           [kind |-> "ASSIGNED", n |-> trade.num_of_contracts],
                           shares, amount, nb, ns, BasisPerShare(nb, ns))}

\* ----------------------------------------------------------------- database
DB == [trades |-> trades, cost_basis |-> cost_basis,
       cash_flows |-> cash_flows, commissions |-> commissions,
       history |-> history, tickers |-> tickers,
       nextTradeId |-> nextTradeId, nextCbId |-> nextCbId,
       nextCfId |-> nextCfId, nextCommId |-> nextCommId]

TradeById(db, trade_id) == CHOOSE t \in db.trades : t.id = trade_id

HasTrade(db, trade_id) == \E t \in db.trades : t.id = trade_id

\* UPDATE trades SET ... WHERE id = ?
PutTrade(trs, t) == {o \in trs : o.id # t.id} \cup {t}

CashFlow(id, account_id, date, type, amount, trade_id, ticker_id) ==
    [id |-> id, account_id |-> account_id, transaction_date |-> date,
     transaction_type |-> type, amount |-> amount, trade_id |-> trade_id,
     ticker_id |-> ticker_id]

\* SELECT requires_contracts FROM trade_types WHERE type_name = <trade_type>:
\* only the bare names 'ROCT PUT' and 'ROCT CALL' carry requires_contracts = 1
RequiresContracts(tt) == tt.prefix = 0 /\ tt.base \in {"ROCT PUT", "ROCT CALL"}

\* the stored trade_type: options get the ticker in front
StoredTradeType(ticker, name) ==
    IF name \in {"ROCT PUT", "ROCT CALL"}
    THEN [prefix |-> ticker, base |-> name]
    ELSE [prefix |-> 0, base |-> name]

\* transaction_type of the cash flow add_trade records
AddTradeCashFlowType(tt) ==
    IF RequiresContracts(tt)
    THEN (IF IsPut(tt) THEN "SELL PUT" ELSE "SELL CALL")
    ELSE (IF tt.prefix = 0 /\ tt.base = "BTO" THEN "PREMIUM_DEBIT"
          ELSE "PREMIUM_CREDIT")

\* POST /api/trades
add_trade(db, account_id, ticker, trade_date, expiration_date, num_of_contracts, premium, strike_price, type_name) ==
    LET tk == db.tickers \cup {ticker}
    IN IF type_name \notin TradeTypeNames
       THEN [db |-> [db EXCEPT !.tickers = tk], code |-> 400, new_id |-> 0]
       ELSE
       LET tt == StoredTradeType(ticker, type_name)
           dte == expiration_date - trade_date
           total_premium == IF IsStock(tt) THEN premium * num_of_contracts
                            ELSE premium * num_of_contracts * 100
           commission == get_commission_rate(db.commissions, account_id,
                                             trade_date)
           net == NetCreditPerShare(premium, commission)
           trade_id == db.nextTradeId
           trade == [id |-> trade_id, account_id |-> account_id,
                     ticker_id |-> ticker, trade_date |-> trade_date,
                     expiration_date |-> expiration_date,
                     num_of_contracts |-> num_of_contracts,
                     credit_debit |-> premium, days_to_expiration |-> dte,
                     strike_price |-> strike_price, trade_status |-> "open",
                     trade_type |-> tt, commission_per_share |-> commission,
                     net_credit_per_share |-> net,
                     risk_capital_per_share |->
                         RiskCapitalPerShare(tt, strike_price, net),
                     margin_capital |->
                         MarginCapital(tt, strike_price, net, num_of_contracts),
                     margin_percent |-> 100,
                     ARORC |-> Arorc(tt, strike_price, net, dte, 100),
                     trade_parent_id |-> 0]
           cb1 == IF IsStock(tt)
                  THEN create_cost_basis_entry(db.cost_basis, db.nextCbId,
                           account_id, ticker, trade_id, trade_date, tt,
                           num_of_contracts, total_premium)
                  ELSE create_options_cost_basis_entry(db.cost_basis,
                           db.nextCbId, account_id, ticker, trade_id,
                           trade_date, num_of_contracts, premium)
           cf_id == db.nextCfId
           cf == CashFlow(cf_id, account_id, trade_date,
                          AddTradeCashFlowType(tt),
                          IF RequiresContracts(tt)
                          THEN premium * num_of_contracts * 100
                          ELSE total_premium,
                          trade_id, ticker)
           cb2 == {IF e.trade_id = trade_id /\ e.ticker_id = ticker
                      /\ e.transaction_date = trade_date
                      /\ IsNull(e.cash_flow_id)
                   THEN [e EXCEPT !.cash_flow_id = Some(cf_id)] ELSE e
                   : e \in cb1}
       IN [db |-> [db EXCEPT !.tickers = tk,
                             !.trades = @ \cup {trade},
                             !.cost_basis = cb2,
                             !.cash_flows = @ \cup {cf},
                             !.nextTradeId = @ + 1,
                             !.nextCbId = @ + 1,
                             !.nextCfId = @ + 1],
           code |-> 200, new_id |-> trade_id]

\* DELETE /api/trades/<id>
delete_trade(db, trade_id) ==
    IF ~HasTrade(db, trade_id)
    THEN [db |-> db, code |-> 404, new_id |-> 0]
    ELSE [db |-> [db EXCEPT
                    !.cost_basis = {e \in @ : e.trade_id # trade_id},
                    !.trades = {t \in @ : t.id # trade_id}],
          code |-> 200, new_id |-> 0]

\* ------------------------------------------------- Trade Lifecycle (status)
\* variant: the child starts from the rolled trade's row, economics included
RollChild_CopyOfParent(new_id, trade, current_date) ==
    [trade EXCEPT !.id = new_id, !.trade_date = current_date,
                  !.trade_status = "open", !.trade_parent_id = trade.id]

\* the child inserted by the roll branch: placeholder economics, dated today
RollChild(new_id, trade, current_date) ==
    LET tt == trade.trade_type
        \* trade_type.startswith(ticker + ' ') strips the current ticker
        base_is_roct == tt.prefix = trade.ticker_id \/ tt.prefix = 0
        formatted == IF base_is_roct /\ tt.base \in {"ROCT PUT", "ROCT CALL"}
                     THEN [prefix |-> trade.ticker_id, base |-> tt.base]
                     ELSE tt
    IN [id |-> new_id, account_id |-> trade.account_id,
        ticker_id |-> trade.ticker_id, trade_date |-> current_date,
        expiration_date |-> current_date, num_of_contracts |-> 1,
        credit_debit |-> 0, days_to_expiration |-> 0, strike_price |-> 0,
        trade_status |-> "open", trade_type |-> formatted,
        commission_per_share |-> 0, net_credit_per_share |-> 0,
        risk_capital_per_share |-> Null, margin_capital |-> Null,
        margin_percent |-> 100, ARORC |-> Null,
        trade_parent_id |-> trade.id]

\* PUT /api/trades/<id>/status
update_trade_status(db, trade_id, new_status, current_date) ==
    IF ~HasTrade(db, trade_id)
    THEN [db |-> db, code |-> 404, new_id |-> 0]
    ELSE
    LET trade == TradeById(db, trade_id)
        old_status == trade.trade_status
        trs1 == PutTrade(db.trades, [trade EXCEPT !.trade_status = new_status])
        hist1 == Append(db.history, [trade_id |-> trade_id,
                                     old_status |-> old_status,
                                     new_status |-> new_status])
        db1 == [db EXCEPT !.trades = trs1, !.history = hist1]
    IN
    IF new_status = "assigned" /\ old_status # "assigned"
    THEN
      LET cb1 == create_assigned_cost_basis_entry(db.cost_basis, db.nextCbId,
                                                  trade)
          created == cb1 # db.cost_basis
          shares == trade.num_of_contracts * 100
          total_amount == IF IsPut(trade.trade_type)
                          THEN -(trade.strike_price * shares)
                          ELSE trade.strike_price * shares
          cf_id == db.nextCfId
          cf == CashFlow(cf_id, trade.account_id, trade.expiration_date + 2,
                         "ASSIGNMENT", total_amount, trade_id, trade.ticker_id)
          cb2 == {IF e.trade_id = trade_id /\ e.account_id = trade.account_id
                     /\ e.ticker_id = trade.ticker_id
                     /\ e.transaction_date = trade.expiration_date
                     /\ e.description.kind = "ASSIGNED"
                     /\ IsNull(e.cash_flow_id)
                  THEN [e EXCEPT !.cash_flow_id = Some(cf_id)] ELSE e
                  : e \in cb1}
      IN [db |-> [db1 EXCEPT !.cost_basis = cb2,
                             !.cash_flows = @ \cup {cf},
                             !.nextCbId = IF created THEN @ + 1 ELSE @,
                             !.nextCfId = @ + 1],
          code |-> 200, new_id |-> 0]
    ELSE IF old_status = "assigned" /\ new_status # "assigned"
    THEN [db |-> [db1 EXCEPT !.cost_basis =
                     @ \ AssignedEntries(@, trade_id, trade.account_id,
                                         trade.ticker_id)],
          code |-> 200, new_id |-> 0]
    ELSE IF new_status = "roll" /\ old_status = "open"
    THEN
      LET new_trade_id == db.nextTradeId
          child == RollChild(new_trade_id, trade, current_date)
          cb1 == create_roll_diagonal_cost_basis_entry(db.cost_basis,
                     db.nextCbId, new_trade_id, trade.account_id,
                     trade.ticker_id, current_date, 0, 1)
      IN [db |-> [db1 EXCEPT !.trades = @ \cup {child},
                             !.cost_basis = cb1,
                             !.nextTradeId = @ + 1,
                             !.nextCbId = @ + 1],
          code |-> 200, new_id |-> new_trade_id]
    ELSE [db |-> db1, code |-> 200, new_id |-> 0]

\* ------------------------------------------------- Recalculation Cascade
\* variant: the net credit is taken from the stored net credit
RecalculatedTrade_Compounding(comms, t) ==
    LET rate == get_commission_rate(comms, t.account_id, t.trade_date)
        net == NetCreditPerShare(t.net_credit_per_share, rate)
    IN [t EXCEPT
          !.commission_per_share = rate,
          !.net_credit_per_share = net,
          !.risk_capital_per_share =
              RiskCapitalPerShare(t.trade_type, t.strike_price, net),
          !.margin_capital =
              MarginCapital(t.trade_type, t.strike_price, net,
                            t.num_of_contracts),
          !.ARORC = Arorc(t.trade_type, t.strike_price, net,
                          t.days_to_expiration, t.margin_percent)]

\* the row update_trades_for_commission writes for one selected trade
RecalculatedTrade(comms, t) ==
    LET rate == get_commission_rate(comms, t.account_id, t.trade_date)
        net == NetCreditPerShare(t.credit_debit, rate)
    IN [t EXCEPT
          !.commission_per_share = rate,
          !.net_credit_per_share = net,
          !.risk_capital_per_share =
              RiskCapitalPerShare(t.trade_type, t.strike_price, net),
          !.margin_capital =
              MarginCapital(t.trade_type, t.strike_price, net,
                            t.num_of_contracts),
          !.ARORC = Arorc(t.trade_type, t.strike_price, net,
                          t.days_to_expiration, t.margin_percent)]

\* variant: the account filter is missing
TradesToUpdate_AnyAccount(trs, account_id, effective_date) ==
    {t \in trs : t.trade_date >= effective_date}

\* WHERE account_id = ? AND trade_date >= ?
TradesToUpdate(trs, account_id, effective_date) ==
    {t \in trs : t.account_id = account_id /\ t.trade_date >= effective_date}

update_trades_for_commission(db, account_id, effective_date) ==
    [db EXCEPT !.trades =
        {IF t \in TradesToUpdate(db.trades, account_id, effective_date)
         THEN RecalculatedTrade(db.commissions, t) ELSE t : t \in db.trades}]

\* POST /api/commissions
create_commission(db, account_id, commission_rate, effective_date) ==
    LET c == [id |-> db.nextCommId, account_id |-> account_id,
              commission_rate |-> commission_rate,
              effective_date |-> effective_date]
        db1 == [db EXCEPT !.commissions = @ \cup {c}, !.nextCommId = @ + 1]
    IN [db |-> update_trades_for_commission(db1, account_id, effective_date),
        code |-> 200, new_id |-> 0]

\* PUT /api/commissions/<id>
update_commission(db, commission_id, commission_rate, effective_date) ==
    IF ~\E c \in db.commissions : c.id = commission_id
    THEN [db |-> db, code |-> 404, new_id |-> 0]
    ELSE
    LET c == CHOOSE x \in db.commissions : x.id = commission_id
        db1 == [db EXCEPT !.commissions = (@ \ {c}) \cup
                   {[c EXCEPT !.commission_rate = commission_rate,
                              !.effective_date = effective_date]}]
    IN [db |-> update_trades_for_commission(db1, c.account_id, effective_date),
        code |-> 200, new_id |-> 0]

\* variant: the rate is removed and no trade is recalculated
delete_commission_NoCascade(db, commission_id) ==
    IF ~\E c \in db.commissions : c.id = commission_id
    THEN [db |-> db, code |-> 404, new_id |-> 0]
    ELSE [db |-> [db EXCEPT !.commissions =
                     {c \in @ : c.id # commission_id}],
          code |-> 200, new_id |-> 0]

\* DELETE /api/commissions/<id>
delete_commission(db, commission_id) ==
    IF ~\E c \in db.commissions : c.id = commission_id
    THEN [db |-> db, code |-> 404, new_id |-> 0]
    ELSE
    LET c == CHOOSE x \in db.commissions : x.id = commission_id
        db1 == [db EXCEPT !.commissions = @ \ {c}]
    IN [db |-> update_trades_for_commission(db1, c.account_id,
                                            c.effective_date),
        code |-> 200, new_id |-> 0]

\* ------------------------------------------------------ single-field edits
\* SELECT ... FROM trades WHERE ticker_id = ? AND account_id = ? AND
\* trade_status = 'roll' ORDER BY id DESC LIMIT 1
RolledOriginals(trs, trade) ==
    {o \in trs : o.ticker_id = trade.ticker_id
                 /\ o.account_id = trade.account_id
                 /\ o.trade_status = "roll"}

LatestById(S) == CHOOSE o \in S : \A p \in S : p.id <= o.id

\* SELECT id FROM cost_basis WHERE trade_id = ? AND description LIKE
\* 'SELL -1 DIAGONAL%'
ExistingDiagonal(cb, trade_id) ==
    \E e \in cb : e.trade_id = trade_id /\ e.description.kind = "DIAGONAL"
                  /\ e.description.n = 1

\* the roll-ledger step of the trade_date and credit_debit edits: new_exp is
\* the date compared with the rolled trade's expiration, new_credit the
\* credit the entry is built from
RollLedgerOnEdit(db, trade, current_date, new_exp, new_credit) ==
    LET origs == RolledOriginals(db.trades, trade)
    IN IF /\ trade.trade_date = current_date
          /\ trade.trade_status = "open"
          /\ origs # {}
          /\ new_exp = LatestById(origs).expiration_date
          /\ trade.strike_price > 0
          /\ new_credit # 0
          /\ ~ExistingDiagonal(db.cost_basis, trade.id)
       THEN [db EXCEPT
               !.cost_basis = create_roll_diagonal_cost_basis_entry(@,
                   db.nextCbId, trade.id, trade.account_id, trade.ticker_id,
                   trade.trade_date, new_credit, trade.num_of_contracts),
               !.nextCbId = @ + 1]
       ELSE db

\* the UPDATE trades SET ... each field edit builds
EditedTrade(trade, field, value) ==
    LET tt == trade.trade_type
        n == trade.num_of_contracts
        strike == trade.strike_price
        comm == trade.commission_per_share
        dte == trade.days_to_expiration
        mp == trade.margin_percent
    IN
    CASE field = "expiration_date" ->
           [trade EXCEPT !.expiration_date = value,
                         !.days_to_expiration = value - trade.trade_date]
      [] field = "trade_date" ->
           [trade EXCEPT !.trade_date = value,
                         !.days_to_expiration = trade.expiration_date - value]
      [] field = "num_of_contracts" ->
           LET net == round_standard(trade.credit_debit - comm, 1)
           IN [trade EXCEPT
                 !.num_of_contracts = value,
                 !.margin_capital =
                     IF IsPutStyle(tt)
                     THEN Some(value * 100 * (strike - net))
                     ELSE IF ~IsStock(tt) /\ strike > 0
                     THEN Some((strike - trade.net_credit_per_share)
                               * value * 100)
                     ELSE @]
      [] field = "credit_debit" ->
           LET net == round_standard(value - comm, 1)
               risk == round_standard(strike - net, 1)
           IN [trade EXCEPT
                 !.credit_debit = value,
                 !.net_credit_per_share = net,
                 !.risk_capital_per_share =
                     IF IsPutStyle(tt) THEN Some(risk) ELSE Null,
                 !.margin_capital =
                     IF IsPutStyle(tt) THEN Some(n * 100 * risk)
                     ELSE IF ~IsStock(tt) /\ strike > 0
                     THEN Some((strike - net) * n * 100)
                     ELSE @,
                 !.ARORC =
                     IF ArorcGuard(tt, strike, net, dte, mp)
                     THEN Some(ArorcValue(net, strike - net, dte, mp))
                     ELSE @]
      [] field = "strike_price" ->
           LET net == round_standard(trade.credit_debit - comm, 1)
           IN [trade EXCEPT
                 !.strike_price = value,
                 !.risk_capital_per_share =
                     IF IsPutStyle(tt)
                     THEN Some(round_standard(value - net, 1)) ELSE @,
                 !.margin_capital =
                     IF IsPutStyle(tt) THEN Some(n * 100 * (value - net))
                     ELSE IF ~IsStock(tt) /\ value > 0
                     THEN Some((value - net) * n * 100)
                     ELSE @,
                 !.ARORC =
                     IF ArorcGuard(tt, value, net, dte, mp)
                     THEN Some(ArorcValue(net, value - net, dte, mp))
                     ELSE @]
      [] field = "trade_status" -> [trade EXCEPT !.trade_status = value]
      [] field = "ticker" -> [trade EXCEPT !.ticker_id = value]

\* PUT /api/trades/<id>/field
update_trade_field(db, trade_id, field, value, current_date) ==
    IF ~HasTrade(db, trade_id)
    THEN [db |-> db, code |-> 404, new_id |-> 0]
    ELSE
    LET trade == TradeById(db, trade_id)
        db1 == IF field = "ticker"
               THEN [db EXCEPT !.tickers = @ \cup {value}] ELSE db
        db2 == IF field = "trade_date"
               THEN RollLedgerOnEdit(db1, trade, current_date, value,
                                     trade.credit_debit)
               ELSE IF field = "credit_debit"
               THEN RollLedgerOnEdit(db1, trade, current_date,
                                     trade.expiration_date, value)
               ELSE db1
    IN [db |-> [db2 EXCEPT !.trades =
                   PutTrade(@, EditedTrade(trade, field, value))],
        code |-> 200, new_id |-> 0]

\* ------------------------------------------------------------------ actions
\* commit of a request: the tables it leaves and the response it returns
Commit(r, op, account_id, date) ==
    /\ trades' = r.db.trades
    /\ cost_basis' = r.db.cost_basis
    /\ cash_flows' = r.db.cash_flows
    /\ commissions' = r.db.commissions
    /\ history' = r.db.history
    /\ tickers' = r.db.tickers
    /\ nextTradeId' = r.db.nextTradeId
    /\ nextCbId' = r.db.nextCbId
    /\ nextCfId' = r.db.nextCfId
    /\ nextCommId' = r.db.nextCommId
    /\ last' = [op |-> op, code |-> r.code, new_id |-> r.new_id,
                account_id |-> account_id, date |-> date]
    /\ steps' = steps + 1
    /\ today' = today

TradeIds == {t.id : t \in trades}

CommissionIds == {c.id : c \in commissions}

AddTrade(B, AC, TK, TD, ED, QS, PR, SK, TY) ==
    /\ steps < B
    /\ nextTradeId <= MaxTrades
    /\ \E a \in AC, tk \in TK, td \in TD, ed \in ED, n \in QS, pr \in PR,
          sk \in SK, ty \in TY :
          Commit(add_trade(DB, a, tk, td, ed, n, pr, sk, ty), "add_trade",
                 0, 0)

DeleteTrade(B) ==
    /\ steps < B
    /\ \E id \in TradeIds : Commit(delete_trade(DB, id), "delete_trade", 0, 0)

UpdateTradeStatus(B, ST) ==
    /\ steps < B
    /\ \E id \in TradeIds, st \in ST :
          /\ (st = "roll" /\ TradeById(DB, id).trade_status = "open")
                => nextTradeId <= MaxTrades
          /\ Commit(update_trade_status(DB, id, st, today),
                    "update_trade_status", 0, 0)

UpdateTradeField(B, F, V) ==
    /\ steps < B
    /\ \E id \in TradeIds, f \in F :
          \E v \in V[f] :
             Commit(update_trade_field(DB, id, f, v, today),
                    "update_trade_field", 0, 0)

CreateCommission(B, AC, RT, ED) ==
    /\ steps < B
    /\ nextCommId <= MaxRates
    /\ \E a \in AC, r \in RT, d \in ED :
          Commit(create_commission(DB, a, r, d), "create_commission", a, d)

UpdateCommission(B, RT, ED) ==
    /\ steps < B
    /\ \E id \in CommissionIds, r \in RT, d \in ED :
          Commit(update_commission(DB, id, r, d), "update_commission",
                 (CHOOSE c \in commissions : c.id = id).account_id, d)

DeleteCommission(B) ==
    /\ steps < B
    /\ \E id \in CommissionIds :
          LET c == CHOOSE x \in commissions : x.id = id
          IN Commit(delete_commission(DB, id), "delete_commission",
                    c.account_id, c.effective_date)

\* the database after init_db: empty tables, the four default trade types
InitAt(TD) ==
    /\ trades = {}
    /\ cost_basis = {}
    /\ cash_flows = {}
    /\ commissions = {}
    /\ history = <<>>
    /\ tickers = {}
    /\ nextTradeId = 1
    /\ nextCbId = 1
    /\ nextCfId = 1
    /\ nextCommId = 1
    /\ today \in TD
    /\ steps = 0
    /\ last = [op |-> "init", code |-> 200, new_id |-> 0, account_id |-> 0,
               date |-> 0]

\* ------------------------------------------------- ledger and lifecycle
LedgerEdits ==
    [f \in {"ticker", "trade_status"} |->
        CASE f = "ticker" -> {2}
          [] f = "trade_status" -> {"open"}]

LedgerInit == InitAt({2})

LedgerNext ==
    \/ AddTrade(MaxLedgerSteps, {1}, {1}, 1 .. 2, {3}, {1}, {250}, {24500},
                {"ROCT PUT", "ROCT CALL", "BTO"})
    \/ UpdateTradeStatus(MaxLedgerSteps, Statuses)
    \/ UpdateTradeField(MaxLedgerSteps, DOMAIN LedgerEdits, LedgerEdits)
    \/ DeleteTrade(MaxLedgerSteps)

SpecLedger == LedgerInit /\ [][LedgerNext]_vars

Scopes == {<<e.account_id, e.ticker_id>> : e \in cost_basis}

\* C1: for every (account, ticker), the stored running_shares and
\* running_basis of the last ledger entry in (transaction date, insertion
\* sequence) order equal the sums of the share deltas and of the amount
\* deltas of all entries of that (account, ticker).
C1_LastEntryHoldsTotals ==
    \A sc \in Scopes :
        LET es == Scope(cost_basis, sc[2], sc[1])
            l == MaxByDateId(es)
        IN /\ l.running_shares = SumShares(es)
           /\ l.running_basis = SumAmount(es)

\* a status-history record of a trade moved out of status assigned
IsUnassign(h) == h.old_status = "assigned" /\ h.new_status # "assigned"

\* the entries whose stored totals were seeded from entry x: appended after
\* x while x was the greatest entry of the scope in (date, id) order
SeededFrom(cb, x) ==
    {e \in Scope(cb, x.ticker_id, x.account_id) :
        /\ e.id > x.id
        /\ x = MaxByDateId({o \in Scope(cb, x.ticker_id, x.account_id) :
                               o.id < e.id})
        /\ e.running_shares = x.running_shares + e.shares
        /\ e.running_basis = x.running_basis + e.total_amount}

\* C2: when a trade leaves status assigned, the ledger entry created at
\* assignment time is deleted and its running-total effect is reversed in
\* the ledger entries of the scope appended after it.
C2_UnassignReversesTotals ==
    [][(/\ last'.op = "update_trade_status"
        /\ Len(history') = Len(history) + 1
        /\ IsUnassign(history'[Len(history')]))
       => LET t == TradeById(DB, history'[Len(history')].trade_id)
          IN \A x \in AssignedEntries(cost_basis, t.id, t.account_id,
                                      t.ticker_id) :
                /\ x \notin cost_basis'
                /\ \A e \in SeededFrom(cost_basis, x) :
                      \E e2 \in cost_basis' :
                         /\ e2.id = e.id
                         /\ e2.running_shares = e.running_shares - x.shares
                         /\ e2.running_basis
                               = e.running_basis - x.total_amount
      ]_vars

\* the ledger entries carrying the ASSIGNED marker of a trade
AssignedOfTrade(trade_id) ==
    {e \in cost_basis : e.trade_id = trade_id
                        /\ e.description.kind = "ASSIGNED"}

\* the status transitions recorded for a trade, oldest first
TransitionsOf(trade_id) ==
    SelectSeq(history, LAMBDA h : h.trade_id = trade_id)

\* C3: after the transitions open -> assigned -> any non-assigned status of
\* a trade, the ledger holds no entry attributable to the assignment.
C3_RoundTripLeavesNoEntry ==
    \A t \in trades :
        LET tr == TransitionsOf(t.id)
        IN (Len(tr) > 0 /\ IsUnassign(tr[Len(tr)])) =>
              AssignedOfTrade(t.id) = {}

\* C4: at most one ledger entry carrying the ASSIGNED marker exists per
\* trade, and a transition to assigned is never answered with an error.
C4_AssignmentIdempotent ==
    /\ \A t \in trades : Cardinality(AssignedOfTrade(t.id)) <= 1
    /\ last.op = "update_trade_status" => last.code = 200

AssignmentCashFlows(trade_id) ==
    {c \in cash_flows : c.trade_id = trade_id
                        /\ c.transaction_type = "ASSIGNMENT"}

\* C5: for every trade the number of ASSIGNMENT cash-flow entries linked to
\* it equals the number of its ASSIGNED ledger entries, and is 0 or 1.
C5_OneCashFlowPerAssignment ==
    \A t \in trades :
        /\ Cardinality(AssignmentCashFlows(t.id))
              = Cardinality(AssignedOfTrade(t.id))
        /\ Cardinality(AssignedOfTrade(t.id)) <= 1

\* ------------------------------------------- commissions and recalculation
Rates == {50, 100}

MetricsEdits ==
    [f \in {"num_of_contracts", "credit_debit", "strike_price", "trade_date",
            "expiration_date"} |->
        CASE f = "num_of_contracts" -> {2}
          [] f = "credit_debit" -> {50}
          [] f = "strike_price" -> {0, 24000}
          [] f = "trade_date" -> {2}
          [] f = "expiration_date" -> {1, 4}]

MetricsInit == InitAt({1})

MetricsNext ==
    \/ AddTrade(MaxSteps, Accounts, {1}, 1 .. 2, {3}, {1}, {250}, {24500},
                {"ROCT PUT", "ROCT CALL", "BTO"})
    \/ CreateCommission(MaxSteps, Accounts, Rates, 1 .. 2)
    \/ UpdateCommission(MaxSteps, Rates, 1 .. 2)
    \/ DeleteCommission(MaxSteps)
    \/ UpdateTradeField(MaxSteps, DOMAIN MetricsEdits, MetricsEdits)
    \/ UpdateTradeStatus(MaxSteps, {"closed", "assigned"})

SpecMetrics == MetricsInit /\ [][MetricsNext]_vars

CommEdits == [f \in {"credit_debit"} |-> {50}]

CommNext ==
    \/ AddTrade(MaxSteps, Accounts, {1}, 1 .. 2, {3}, {1}, {250}, {24500},
                {"ROCT PUT", "BTO"})
    \/ CreateCommission(MaxSteps, Accounts, {50}, 1 .. 2)
    \/ UpdateCommission(MaxSteps, {100}, 1 .. 2)
    \/ DeleteCommission(MaxSteps)
    \/ UpdateTradeField(MaxSteps, DOMAIN CommEdits, CommEdits)

SpecComm == MetricsInit /\ [][CommNext]_vars

\* the derived fields the Metrics Calculator gives for the stored inputs of t
DerivedFieldsMatch(t) ==
    LET net == t.credit_debit - t.commission_per_share
    IN /\ t.net_credit_per_share = net
       /\ t.risk_capital_per_share =
             (IF t.trade_type.base = "ROCT PUT"
              THEN Some(t.strike_price - net) ELSE Null)
       /\ t.margin_capital =
             (IF t.trade_type.base \in {"ROCT PUT", "ROCT CALL"}
                 /\ t.strike_price > 0
              THEN Some((t.strike_price - net) * t.num_of_contracts * 100)
              ELSE Null)
       /\ t.ARORC =
             (IF t.trade_type.base = "ROCT PUT" /\ t.strike_price - net > 0
                 /\ t.days_to_expiration > 0 /\ t.margin_percent > 0
              THEN Some(RoundHalfUpDiv(
                       365 * 1000 * net,
                       t.days_to_expiration * (t.strike_price - net)
                         * (t.margin_percent \div 100)))
              ELSE Null)

\* C6: every trade's stored derived fields (net_credit_per_share,
\* risk_capital_per_share, margin_capital, ARORC) equal the Metrics
\* Calculator formulas applied to the trade's stored credit_debit, strike,
\* commission_per_share, quantity, days_to_expiration and margin_percent.
C6_DerivedNeverDrift == \A t \in trades : DerivedFieldsMatch(t)

\* r is the rate in effect for account a at date d under the rates comms
InEffect(comms, a, d, r) ==
    LET cand == {c \in comms : c.account_id = a /\ c.effective_date <= d}
    IN IF cand = {} THEN r = 0
       ELSE \E c \in cand :
               /\ c.commission_rate = r
               /\ \A o \in cand : o.effective_date <= c.effective_date

CommissionOps == {"create_commission", "update_commission",
                  "delete_commission"}

\* C7: after a commission rate of account A with effective date D is created,
\* edited to D or deleted, every trade of A dated on or after D stores the
\* rate in effect at its trade date under the remaining rates (0 if none)
\* and the derived fields recomputed from that rate.
C7_CascadePostcondition ==
    (last.op \in CommissionOps /\ last.code = 200) =>
        \A t \in trades :
            (t.account_id = last.account_id /\ t.trade_date >= last.date) =>
                /\ InEffect(commissions, t.account_id, t.trade_date,
                            t.commission_per_share)
                /\ DerivedFieldsMatch(t)

\* a rate was deleted and a trade dated after it fell back to an earlier,
\* still remaining rate
C7_Witness ==
    /\ last.op = "delete_commission"
    /\ \E t \in trades, c \in commissions :
          /\ t.account_id = last.account_id
          /\ c.account_id = t.account_id
          /\ t.trade_date >= last.date
          /\ c.effective_date < last.date
          /\ t.commission_per_share = c.commission_rate
          /\ t.net_credit_per_share = t.credit_debit - c.commission_rate

RecalcDates == 1 .. 3

\* C8: recalculate(A, D) run twice in a row leaves exactly the stored trade
\* fields (and tables) that a single run leaves.
C8_RecalculateIdempotent ==
    \A a \in Accounts, d \in RecalcDates :
        LET once == update_trades_for_commission(DB, a, d)
        IN update_trades_for_commission(once, a, d) = once

\* a state in which a recalculation is not a no-op: some trade's stored
\* commission is stale
C8_Witness ==
    \E a \in Accounts, d \in RecalcDates :
        update_trades_for_commission(DB, a, d).trades # trades

\* the columns of a trade the cascade may not write
FrameOfTrade(t) ==
    [t EXCEPT !.commission_per_share = 0, !.net_credit_per_share = 0,
              !.risk_capital_per_share = Null, !.margin_capital = Null,
              !.ARORC = Null]

\* C9: recalculate(A, D) leaves every ledger entry, cash-flow entry,
\* commission rate, trade of another account and trade of A dated before D
\* unchanged, and changes only the commission and derived metric fields of
\* the trades it updates.
C9_RecalculateFrame ==
    \A a \in Accounts, d \in RecalcDates :
        LET after == update_trades_for_commission(DB, a, d)
        IN /\ after.cost_basis = cost_basis
           /\ after.cash_flows = cash_flows
           /\ after.commissions = commissions
           /\ after.history = history
           /\ after.tickers = tickers
           /\ \A t \in trades :
                 (t.account_id # a \/ t.trade_date < d) => t \in after.trades
           /\ {FrameOfTrade(t) : t \in after.trades}
                 = {FrameOfTrade(t) : t \in trades}
           /\ {t.id : t \in after.trades} = TradeIds

\* a recalculation that rewrites one trade while a trade of another account
\* and ledger and cash-flow entries exist
C9_Witness ==
    \E a \in Accounts, d \in RecalcDates :
        /\ update_trades_for_commission(DB, a, d).trades # trades
        /\ cost_basis # {}
        /\ cash_flows # {}
        /\ commissions # {}
        /\ \E t \in trades : t.account_id # a

ResolveAccounts == 1 .. 3

\* C10: resolve(account, date) is total: it returns the rate of the account's
\* rate with the greatest effective date <= date, ignoring other accounts and
\* later rates, and 0 when the account has no such rate.
C10_ResolveTotal ==
    \A a \in ResolveAccounts, d \in RecalcDates :
        LET r == get_commission_rate(commissions, a, d)
        IN /\ r \in Nat
           /\ InEffect(commissions, a, d, r)

\* a trade created under two rates of its account, one effective after its
\* date, while it stores the earlier one
C10_Witness ==
    \E t \in trades, c1 \in commissions, c2 \in commissions :
        /\ c1.account_id = t.account_id
        /\ c2.account_id = t.account_id
        /\ c1.effective_date <= t.trade_date
        /\ c2.effective_date > t.trade_date
        /\ c1.commission_rate # c2.commission_rate
        /\ last.op = "add_trade"
        /\ t.id = last.new_id
        /\ t.commission_per_share = c1.commission_rate
        /\ get_commission_rate(commissions, t.account_id, t.trade_date)
              = c1.commission_rate

\* ------------------------------------------------- status history
\* a trade whose stored status differs between the two states of a step
StatusChanged(t, u) == u.id = t.id /\ u.trade_status # t.trade_status

\* C11: every step that changes the stored status of a trade, whichever
\* operation makes it, appends exactly one history record holding the trade
\* id, the old status and the new status, and leaves the earlier records as
\* they were.
C11_EveryStatusChangeRecorded ==
    [][\A t \in trades : \A u \in trades' :
          StatusChanged(t, u) =>
             history' = Append(history, [trade_id |-> t.id,
                                         old_status |-> t.trade_status,
                                         new_status |-> u.trade_status])]_vars

\* ------------------------------------------------- trade intake and rolls
\* type names a request can carry: the four stored ones and one that is not
IntakeTypeNames == {"ROCT PUT", "BTO", "SPREAD"}

IntakeEdits == [f \in {"ticker"} |-> {2}]

IntakeNext ==
    \/ AddTrade(MaxSteps, {1}, {1}, {2}, {3}, {1}, {250}, {24500}, IntakeTypeNames)
    \/ UpdateTradeStatus(MaxSteps, {"roll", "closed"})
    \/ UpdateTradeField(MaxSteps, DOMAIN IntakeEdits, IntakeEdits)
    \/ DeleteTrade(MaxSteps)

SpecIntake == LedgerInit /\ [][IntakeNext]_vars

\* update_trade_status took trade t from open to roll
RolledFromOpen(t, u) ==
    u.id = t.id /\ t.trade_status = "open" /\ u.trade_status = "roll"

C13_RollAlwaysReturnsChild ==
    [][\A t \in trades : \A u \in trades' :
          (last'.op = "update_trade_status" /\ StatusChanged(t, u)
             /\ u.trade_status = "roll") =>
             \E c \in trades' : /\ c.id = last'.new_id
                                /\ c.id \notin TradeIds
                                /\ c.trade_parent_id = t.id]_vars

\* ------------------------------------------------- roll-diagonal entries
DiagonalsOf(cb, trade_id) ==
    {e \in cb : e.trade_id = trade_id /\ e.description.kind = "DIAGONAL"}

\* C14: a roll-diagonal entry is written only for a trade whose strike and
\* credit_debit are filled in and whose expiration equals its parent's; the
\* entry written has shares 0 and amount -(credit_debit x quantity x 100);
\* hence a child that still has strike 0 or credit_debit 0 has no
\* roll-diagonal entry.
C14_DiagonalOnlyWhenPopulated ==
    [][/\ \A e \in cost_basis' :
             (e.description.kind = "DIAGONAL"
                /\ e.id \notin {x.id : x \in cost_basis}) =>
                \E c \in trades' :
                   /\ c.id = e.trade_id
                   /\ c.strike_price # 0
                   /\ c.credit_debit # 0
                   /\ \E q \in trades' : /\ q.id = c.trade_parent_id
                                         /\ q.expiration_date = c.expiration_date
                   /\ e.shares = 0
                   /\ e.total_amount
                         = -(c.credit_debit * c.num_of_contracts * 100)
       /\ \A c \in trades' :
             (c.trade_parent_id # 0
                /\ (c.strike_price = 0 \/ c.credit_debit = 0)) =>
                DiagonalsOf(cost_basis', c.id) = {}]_vars

\* trades entered on the current day with one or two contracts, status
\* requests inside and outside the five documented states, and the field
\* edits that reach the roll-ledger step
RollStatuses == {"closed", "roll", "pending"}

RollEdits ==
    [f \in {"credit_debit", "trade_status"} |->
        CASE f = "credit_debit" -> {300}
          [] f = "trade_status" -> {"roll"}]

RollNext ==
    \/ AddTrade(MaxLedgerSteps, {1}, {1}, {2}, {3}, 1 .. 2, {250}, {24500}, {"ROCT PUT"})
    \/ UpdateTradeStatus(MaxLedgerSteps, RollStatuses)
    \/ UpdateTradeField(MaxLedgerSteps, DOMAIN RollEdits, RollEdits)

SpecRoll == LedgerInit /\ [][RollNext]_vars

\* C15: in every reachable state a trade has at most one roll-diagonal
\* ledger entry, whatever its quantity and however often its fields are
\* edited.
C15_AtMostOneDiagonalPerTrade ==
    \A t \in trades : Cardinality(DiagonalsOf(cost_basis, t.id)) <= 1

\* C20: every step leaves each trade in one of the states open, closed,
\* expired, assigned, roll, and every trade a step creates starts in open.
C20_StatusInDocumentedSet ==
    [][\A t \in trades' :
          /\ t.trade_status \in Statuses
          /\ t.id \notin TradeIds => t.trade_status = "open"]_vars

\* ------------------------------------------------- deletion
\* C16: trade ids are never reused, so once a trade is deleted nothing may
\* reference it: in every reachable state each ledger entry and each
\* cash-flow entry references a trade that is still stored.
C16_NoOrphansAfterDelete ==
    /\ \A e \in cost_basis : HasTrade(DB, e.trade_id)
    /\ \A f \in cash_flows : HasTrade(DB, f.trade_id)

\* ------------------------------------------------- unknown trade types
UnknownTypeNames == {"SPREAD"}

add_trade_append_error(db, account_id, ticker, trade_date, expiration_date, num_of_contracts, premium, strike_price, type_name) ==
    LET r == add_trade(db, account_id, ticker, trade_date, expiration_date, num_of_contracts, premium, strike_price, type_name)
    IN IF r.code # 200
       THEN r
       ELSE IF IsStock(StoredTradeType(ticker, type_name))
       THEN [db |-> [db EXCEPT !.tickers = r.db.tickers], code |-> 500,
             new_id |-> 0]
       ELSE [r EXCEPT !.db.cost_basis = db.cost_basis,
                      !.db.nextCbId = db.nextCbId]

\* a commission handler when update_trades_for_commission raises: the rate
\* change was committed and its connection closed before the call, the
\* cascade's own connection is closed without a commit, the answer is 500
cascade_error(db, r) ==
    IF r.code # 200
    THEN r
    ELSE [db |-> [r.db EXCEPT !.trades = db.trades], code |-> 500,
          new_id |-> 0]

AddTradeAppendError(B, AC, TK, TD, ED, QS, PR, SK, TY) ==
    /\ steps < B
    /\ nextTradeId <= MaxTrades
    /\ \E a \in AC, tk \in TK, td \in TD, ed \in ED, n \in QS, pr \in PR,
          sk \in SK, ty \in TY :
          Commit(add_trade_append_error(DB, a, tk, td, ed, n, pr, sk, ty),
                 "add_trade", 0, 0)

CreateCommissionCascadeError(B, AC, RT, ED) ==
    /\ steps < B
    /\ nextCommId <= MaxRates
    /\ \E a \in AC, r \in RT, d \in ED :
          Commit(cascade_error(DB, create_commission(DB, a, r, d)),
                 "create_commission", a, d)

UpdateCommissionCascadeError(B, RT, ED) ==
    /\ steps < B
    /\ \E id \in CommissionIds, r \in RT, d \in ED :
          Commit(cascade_error(DB, update_commission(DB, id, r, d)),
                 "update_commission",
                 (CHOOSE c \in commissions : c.id = id).account_id, d)

DeleteCommissionCascadeError(B) ==
    /\ steps < B
    /\ \E id \in CommissionIds :
          LET c == CHOOSE x \in commissions : x.id = id
          IN Commit(cascade_error(DB, delete_commission(DB, id)),
                    "delete_commission", c.account_id, c.effective_date)

FaultNext ==
    \/ AddTrade(MaxSteps, {1}, {1}, 1 .. 2, {3}, {1}, {250}, {24500}, {"ROCT PUT", "BTO"})
    \/ AddTradeAppendError(MaxSteps, {1}, {1}, 1 .. 2, {3}, {1}, {250}, {24500}, {"ROCT PUT", "BTO"})
    \/ CreateCommission(MaxSteps, {1}, {50}, 1 .. 2)
    \/ CreateCommissionCascadeError(MaxSteps, {1}, {50}, 1 .. 2)
    \/ UpdateCommission(MaxSteps, {100}, 1 .. 2)
    \/ UpdateCommissionCascadeError(MaxSteps, {100}, 1 .. 2)
    \/ DeleteCommission(MaxSteps)
    \/ DeleteCommissionCascadeError(MaxSteps)

SpecFault == MetricsInit /\ [][FaultNext]_vars

\* C17: every create request answered with success leaves exactly one ledger
\* entry and exactly one cash-flow entry referencing the new trade, the
\* ledger entry linked to that cash-flow entry, also when the ledger append
\* fails during the request.
C17_SuccessfulCreateHasLedgerEntry ==
    [][(last'.op = "add_trade" /\ last'.code = 200) =>
          \E e \in cost_basis' : \E f \in cash_flows' :
             /\ {x \in cost_basis' : x.trade_id = last'.new_id} = {e}
             /\ {x \in cash_flows' : x.trade_id = last'.new_id} = {f}
             /\ e.cash_flow_id = Some(f.id)]_vars

\* C18: a commission create, edit or delete whose rate change is stored has
\* also recalculated the trades: after the step every trade of the account
\* dated on or after the effective date stores the rate in effect at its
\* trade date, also when the cascade fails.
C18_RateChangeAtomicWithCascade ==
    [][(last'.op \in CommissionOps /\ commissions' # commissions) =>
          \A t \in trades' :
             (t.account_id = last'.account_id /\ t.trade_date >= last'.date)
                => InEffect(commissions', t.account_id, t.trade_date,
                            t.commission_per_share)]_vars

\* ------------------------------------------------- derived fields at the
\* edges: strikes at or below the net credit, expirations on or before the
\* trade date, rates that change under stored trades
DeriveStrikes == {0, 250, 24500}

DeriveNext ==
    \/ AddTrade(MaxSteps, {1}, {1}, 1 .. 3, {2}, {1}, {250}, DeriveStrikes, {"ROCT PUT", "ROCT CALL"})
    \/ CreateCommission(MaxSteps, {1}, {50}, 1 .. 2)
    \/ UpdateCommission(MaxSteps, {100}, 1 .. 2)
    \/ DeleteCommission(MaxSteps)

SpecDerive == MetricsInit /\ [][DeriveNext]_vars

\* the trades the last request computed derived fields for
LastComputed ==
    IF last.op = "add_trade" /\ last.code = 200
    THEN {t \in trades : t.id = last.new_id}
    ELSE IF last.op \in CommissionOps /\ last.code = 200
    THEN TradesToUpdate(trades, last.account_id, last.date)
    ELSE {}

ArorcUndefined(t) ==
    \/ t.strike_price - t.net_credit_per_share <= 0
    \/ t.days_to_expiration <= 0
    \/ t.margin_percent <= 0

NonPositiveMargins == {-50, 0}

BookNext ==
    \/ AddTrade(MaxSteps, {1}, {1}, 1 .. 2, {3}, 1 .. 2, {250}, {0, 24500}, TradeTypeNames)
    \/ CreateCommission(MaxSteps, {1}, {100}, 1 .. 2)

SpecBook == MetricsInit /\ [][BookNext]_vars

\* the trade the last request created
LastCreated ==
    IF last.op = "add_trade" /\ last.code = 200
    THEN {t \in trades : t.id = last.new_id}
    ELSE {}

AppendNext ==
    \/ AddTrade(MaxSteps, {1}, {1}, 1 .. 2, {3}, {1}, {250}, {24500}, TradeTypeNames)
    \/ UpdateTradeStatus(MaxSteps, {"assigned", "roll"})

SpecAppend == LedgerInit /\ [][AppendNext]_vars

\* the entries a step appends
Appended(cb, cb2) == {e \in cb2 : e.id \notin {x.id : x \in cb}}

\* the fraction <<num, den>> equals n / d
FractionIs(f, n, d) == f[1] * d = n * f[2]

GreatestIn(sc, l) ==
    /\ l \in sc
    /\ \A o \in sc : \/ o.transaction_date < l.transaction_date
                     \/ (o.transaction_date = l.transaction_date
                           /\ o.id <= l.id)

\* the entries of the set es were inserted in non-decreasing date order
DateOrdered(es) ==
    \A a \in es : \A b \in es :
       a.id < b.id => a.transaction_date <= b.transaction_date

\* no entry was ever taken out of the ledger: no trade left status assigned
AppendOnly(h) == \A i \in DOMAIN h : ~IsUnassign(h[i])

\* BTO 10 @ 50.00 followed by STC 5 @ 60.00 on an empty ledger
ExampleLedger ==
    LET bto == [prefix |-> 0, base |-> "BTO"]
        stc == [prefix |-> 0, base |-> "STC"]
        cb1 == create_cost_basis_entry({}, 1, 1, 1, 1, 1, bto, 10, 10 * 5000)
    IN create_cost_basis_entry(cb1, 2, 1, 1, 2, 1, stc, 5, 5 * 6000)

\* C24: an append seeds from the entry of the same (account, ticker) that is
\* greatest in (transaction date, id) order, or from (0, 0), and stores seed
\* plus delta; while entries are only appended and arrive in non-decreasing
\* date order every entry stores the prefix sums of the deltas up to it; BTO
\* 10 @ 50 then STC 5 @ 60 ends with 5 shares, basis 200.00, 40.00 a share.
C24_AppendSeedsFromLatest ==
    [][/\ \A e \in Appended(cost_basis, cost_basis') :
             LET sc == Scope(cost_basis, e.ticker_id, e.account_id)
             IN IF sc = {}
                THEN /\ e.running_basis = e.total_amount
                     /\ e.running_shares = e.shares
                ELSE \E l \in sc :
                        /\ GreatestIn(sc, l)
                        /\ e.running_basis = l.running_basis + e.total_amount
                        /\ e.running_shares = l.running_shares + e.shares
       /\ AppendOnly(history') =>
             \A s \in {<<e.account_id, e.ticker_id>> : e \in cost_basis'} :
                LET es == Scope(cost_basis', s[2], s[1])
                IN DateOrdered(es) =>
                      \A e \in es :
                         LET upto == {x \in es : x.id <= e.id}
                         IN /\ e.running_basis = SumAmount(upto)
                            /\ e.running_shares = SumShares(upto)
       /\ \E l \in ExampleLedger :
             /\ l.id = 2
             /\ l.running_shares = 5
             /\ l.running_basis = 20000
             /\ FractionIs(l.basis_per_share, 4000, 1)]_vars

\* an entry was appended behind an entry that is dated later: the seed is
\* not the entry inserted last
C24_Witness ==
    \E e \in cost_basis, l \in cost_basis, m \in cost_basis :
       /\ l.id < m.id /\ m.id < e.id
       /\ m.transaction_date < l.transaction_date
       /\ e.running_basis = l.running_basis + e.total_amount
       /\ l.running_basis # m.running_basis

\* running shares of the (account, ticker) before an append
SharesBefore(cb, e) ==
    LET sc == Scope(cb, e.ticker_id, e.account_id)
    IN IF sc = {} THEN {0} ELSE {l.running_shares : l \in {x \in sc : GreatestIn(sc, x)}}

AssignNext ==
    \/ AddTrade(MaxSteps, {1}, Tickers, {1}, {3}, 1 .. 2, {250}, {24500}, {"ROCT PUT", "ROCT CALL"})
    \/ UpdateTradeStatus(MaxSteps, {"assigned", "closed"})

SpecAssign == LedgerInit /\ [][AssignNext]_vars

\* C26: a status update that takes a trade into assigned appends one ledger
\* entry dated at the trade's expiration date, with shares +contracts x 100
\* and amount +strike x shares for a PUT and shares -contracts x 100 and
\* amount -(strike x shares) for a CALL, and records one ASSIGNMENT cash flow
\* of the opposite sign, which the ledger entry's cash-flow link points to.
C26_AssignmentEntryByKind ==
    [][\A t \in trades : \A u \in trades' :
          (last'.op = "update_trade_status" /\ StatusChanged(t, u)
             /\ u.trade_status = "assigned") =>
             \E e \in cost_basis' : \E f \in cash_flows' :
                LET shares == t.num_of_contracts * 100
                    sign == IF t.trade_type.base = "ROCT PUT" THEN 1 ELSE -1
                IN /\ Appended(cost_basis, cost_basis') = {e}
                   /\ e.trade_id = t.id
                   /\ e.transaction_date = t.expiration_date
                   /\ e.shares = sign * shares
                   /\ e.total_amount = sign * t.strike_price * shares
                   /\ f.id \notin {x.id : x \in cash_flows}
                   /\ f.transaction_type = "ASSIGNMENT"
                   /\ f.trade_id = t.id
                   /\ f.amount = -(sign * t.strike_price * shares)
                   /\ e.cash_flow_id = Some(f.id)]_vars

\* C27: the cash flow a creation records is SELL PUT for a PUT option, SELL
\* CALL for a CALL option, PREMIUM_DEBIT for BTO and PREMIUM_CREDIT for STC,
\* with amount credit_debit x contracts x 100 for an option and quantity x
\* price for stock.
C27_CashFlowKindByType ==
    \A t \in LastCreated :
       \E f \in cash_flows :
          /\ {x \in cash_flows : x.trade_id = t.id} = {f}
          /\ f.transaction_type =
                (CASE t.trade_type.base = "ROCT PUT" -> "SELL PUT"
                   [] t.trade_type.base = "ROCT CALL" -> "SELL CALL"
                   [] t.trade_type.base = "BTO" -> "PREMIUM_DEBIT"
                   [] t.trade_type.base = "STC" -> "PREMIUM_CREDIT")
          /\ f.amount = IF t.trade_type.base \in {"BTO", "STC"}
                        THEN t.num_of_contracts * t.credit_debit
                        ELSE t.credit_debit * t.num_of_contracts * 100

\* C28: after any sequence of trade creations and commission-rate creations,
\* edits and deletions, every trade stores as commission_per_share the rate
\* that the resolver returns for its account and trade date in that state.
C28_StoredCommissionIsResolved ==
    \A t \in trades :
       t.commission_per_share
          = get_commission_rate(commissions, t.account_id, t.trade_date)


\* ------------------------------------------------------- cost basis report
\* the entries the report joins to a ticker row, of one ticker and account
ReportGroup(cb, tk, ticker_id, account_id) ==
    {e \in Scope(cb, ticker_id, account_id) : e.ticker_id \in tk}

\* the entries of the group up to and including e after
\* entries_list.sort(key = (transaction_date, id))
UpTo(es, e) ==
    {x \in es : \/ x.transaction_date < e.transaction_date
                \/ (x.transaction_date = e.transaction_date /\ x.id <= e.id)}

\* one row of the report: totals recomputed as prefix sums in that order
get_cost_basis_row(es, e) ==
    LET calculated_running_shares == SumShares(UpTo(es, e))
        calculated_running_basis == SumAmount(UpTo(es, e))
    IN [id |-> e.id,
        running_shares |-> calculated_running_shares,
        running_basis |-> calculated_running_basis,
        running_basis_per_share |->
            IF calculated_running_shares # 0
            THEN <<calculated_running_basis, calculated_running_shares>>
            ELSE <<calculated_running_basis, 1>>]

\* the report of one ticker and account: its rows and the totals of the
\* last row, (0, 0, 0) when the group has no entry
get_cost_basis(cb, tk, ticker_id, account_id) ==
    LET es == ReportGroup(cb, tk, ticker_id, account_id)
        rows == {get_cost_basis_row(es, e) : e \in es}
        last_entry == get_cost_basis_row(es, MaxByDateId(es))
    IN [trades |-> rows,
        total_shares |-> IF es = {} THEN 0 ELSE last_entry.running_shares,
        total_cost_basis |-> IF es = {} THEN 0 ELSE last_entry.running_basis,
        total_cost_basis_per_share |->
            IF es = {} THEN <<0, 1>> ELSE last_entry.running_basis_per_share]

\* C29: in every reachable state, for every (account, ticker), each row of
\* the cost basis report carries the running shares, running basis and basis
\* per share stored on its ledger entry, and the reported totals are those
\* stored on the last entry in (transaction date, id) order.
C29_ReportAgreesWithLedger ==
    \A a \in Accounts, k \in Tickers :
       LET rep == get_cost_basis(cost_basis, tickers, k, a)
           es == ReportGroup(cost_basis, tickers, k, a)
       IN /\ \A e \in es : \E r \in rep.trades :
                /\ r.id = e.id
                /\ r.running_shares = e.running_shares
                /\ r.running_basis = e.running_basis
                /\ FractionIs(e.basis_per_share,
                              r.running_basis_per_share[1],
                              r.running_basis_per_share[2])
          /\ es # {} =>
                /\ rep.total_shares = MaxByDateId(es).running_shares
                /\ rep.total_cost_basis = MaxByDateId(es).running_basis
                /\ FractionIs(MaxByDateId(es).basis_per_share,
                              rep.total_cost_basis_per_share[1],
                              rep.total_cost_basis_per_share[2])

\* C30: a create request rejected for an unknown trade type leaves the whole
\* stored state as it was: no trade, ledger entry, cash flow and no ticker
\* row is added by it.
C30_RejectedCreateLeavesNoTrace ==
    [][(last'.op = "add_trade" /\ last'.code = 400) =>
          /\ trades' = trades
          /\ cost_basis' = cost_basis
          /\ cash_flows' = cash_flows
          /\ tickers' = tickers]_vars

====
